---------------------------- MODULE Spec2Model ----------------------------
(***************************************************************************)
(* A model of scraper.py, the scraper of the Twitch API reference.         *)
(*                                                                         *)
(* Text that the program slices, searches or case-folds is a sequence of   *)
(* one-character strings, and those operations are computed character by   *)
(* character.  Text that the program only stores or compares as a whole    *)
(* (a heading, a word of a paragraph) is a string.                         *)
(* An optional value is a sequence of length 0 (None) or 1.                *)
(* A dict is a function whose domain is the set of the keys present.       *)
(*                                                                         *)
(* Each part of the program has its own specification; the variables of    *)
(* the other parts then keep their idle values.                            *)
(***************************************************************************)
EXTENDS Integers, Sequences, FiniteSets, TLC

VARIABLES
    \* fix_json_property: its arguments, its locals, its position
    json_string, property_name, string_copy, index, fix_pc,
    \* the example-response repair of scrape_doc_section: the text as
    \* extracted, the text being rewritten, the parsed value, the position
    column_text, right_column_text, example_response, repair_pc,
    \* parse_response_body: the children of tbody, how many were visited,
    \* the locals container and key_format_string
    response_rows, response_visited, response_container, key_format_string,
    \* parse_request_body: the children of tbody, how many were visited,
    \* the local container
    request_rows, request_visited, request_container,
    \* scrape_doc_left_column: tag.children, how many were visited, the
    \* locals endpoint_doc and current_header, the exception raised
    left_children, left_visited, endpoint_doc, current_header, left_raised,
    \* scrape_docs and main: response.ok, doc_section.children, how many were
    \* visited, the flag, the children handed to scrape_doc_section, the
    \* value yielded to main, main's list, endpoints.json, the exception
    \* raised, the position
    response_ok, doc_children, doc_visited, at_endpoint_definition_table,
    dispatched, yielded, endpoints, endpoints_file, walk_raised, walk_pc

fixVars == <<json_string, property_name, string_copy, index, fix_pc>>
repairVars == <<column_text, right_column_text, example_response, repair_pc>>
responseVars ==
    <<response_rows, response_visited, response_container, key_format_string>>
requestVars == <<request_rows, request_visited, request_container>>
leftVars ==
    <<left_children, left_visited, endpoint_doc, current_header, left_raised>>
walkVars ==
    <<response_ok, doc_children, doc_visited, at_endpoint_definition_table,
      dispatched, yielded, endpoints, endpoints_file, walk_raised, walk_pc>>

vars == <<fixVars, repairVars, responseVars, requestVars, leftVars, walkVars>>

-----------------------------------------------------------------------------
(* Bounds of the model *)

\* the longest input text of fix_json_property, in pieces
MaxPieces == 4

\* the longest example text of the repair step, in pieces
MaxExamplePieces == 3

\* the most children of a tbody given to parse_response_body
MaxResponseRows == 3

\* the most children of a tbody given to parse_request_body
MaxRequestRows == 2

\* the most children of a left column
MaxLeftChildren == 3

\* the most children of the main container
MaxDocChildren == 3

-----------------------------------------------------------------------------
(* Python's values and str operations *)

None == <<>>
Some(x) == <<x>>

\* d[k] = v
Put(d, k, v) == [x \in DOMAIN d \cup {k} |-> IF x = k THEN v ELSE d[x]]

EmptyDict == [x \in {} |-> x]

Min(S) == CHOOSE x \in S : \A y \in S : x <= y
Max(S) == CHOOSE x \in S : \A y \in S : x >= y

\* s[a:b] with 0 <= a
Slice(s, a, b) == SubSeq(s, a + 1, b)

\* s[a:]
SliceFrom(s, a) == SubSeq(s, a + 1, Len(s))

\* the positions (0-based) where pat occurs in s
Occurrences(s, pat) ==
    {i \in 0..(Len(s) - Len(pat)) : SubSeq(s, i + 1, i + Len(pat)) = pat}

\* str.find: the first position of pat in s, -1 when there is none
\* (str.index raises ValueError where this gives -1)
Find(s, pat) ==
    IF Occurrences(s, pat) = {} THEN -1 ELSE Min(Occurrences(s, pat))

\* pat in s
Contains(s, pat) == Occurrences(s, pat) # {}

\* s[i] for a Python index i, which counts from the end when negative
At(s, i) == IF i < 0 THEN s[Len(s) + i + 1] ELSE s[i + 1]

StartsWith(s, pre) == Len(s) >= Len(pre) /\ SubSeq(s, 1, Len(pre)) = pre

EndsWith(s, suf) ==
    Len(s) >= Len(suf) /\ SubSeq(s, Len(s) - Len(suf) + 1, Len(s)) = suf

\* str.replace: the occurrences of old, left to right and not overlapping
RECURSIVE Replace(_, _, _)
Replace(s, old, new) ==
    IF Len(s) < Len(old) THEN s
    ELSE IF SubSeq(s, 1, Len(old)) = old
        THEN new \o Replace(SliceFrom(s, Len(old)), old, new)
        ELSE <<Head(s)>> \o Replace(Tail(s), old, new)

\* s.split(sep)[0]
SplitFirst(s, sep) == IF Find(s, sep) = -1 THEN s ELSE Slice(s, 0, Find(s, sep))

\* s.rstrip(chars)
RECURSIVE RStrip(_, _)
RStrip(s, chars) ==
    IF s # <<>> /\ s[Len(s)] \in chars THEN RStrip(SubSeq(s, 1, Len(s) - 1), chars)
    ELSE s

UpperLetters ==
    <<"A", "B", "C", "D", "E", "F", "G", "H", "I", "J", "K", "L", "M",
      "N", "O", "P", "Q", "R", "S", "T", "U", "V", "W", "X", "Y", "Z">>
LowerLetters ==
    <<"a", "b", "c", "d", "e", "f", "g", "h", "i", "j", "k", "l", "m",
      "n", "o", "p", "q", "r", "s", "t", "u", "v", "w", "x", "y", "z">>

CasefoldChar(c) ==
    IF \E i \in 1..26 : UpperLetters[i] = c
    THEN LowerLetters[CHOOSE i \in 1..26 : UpperLetters[i] = c]
    ELSE c

\* str.casefold, for ASCII text
Casefold(s) == [i \in 1..Len(s) |-> CasefoldChar(s[i])]

\* fmt.format(arg), for a format whose only replacement field is {0}
Format(fmt, arg) == Replace(fmt, <<"{", "0", "}">>, arg)

RECURSIVE Flatten(_)
Flatten(ss) == IF ss = <<>> THEN <<>> ELSE Head(ss) \o Flatten(Tail(ss))

SeqsUpTo(S, n) == UNION {[1..k -> S] : k \in 0..n}

\* the double quote, and U+2014
Q == "\""
EmDash == "u2014"

-----------------------------------------------------------------------------
(* Idle values of the parts a specification does not run *)

IdleFix ==
    /\ json_string = <<>>
    /\ property_name = <<>>
    /\ string_copy = <<>>
    /\ index = 0
    /\ fix_pc = "idle"

IdleRepair ==
    /\ column_text = <<>>
    /\ right_column_text = <<>>
    /\ example_response = None
    /\ repair_pc = "idle"

IdleResponse ==
    /\ response_rows = <<>>
    /\ response_visited = 0
    /\ response_container = <<>>
    /\ key_format_string = None

IdleRequest ==
    /\ request_rows = <<>>
    /\ request_visited = 0
    /\ request_container = <<>>

IdleLeft ==
    /\ left_children = <<>>
    /\ left_visited = 0
    /\ endpoint_doc = EmptyDict
    /\ current_header = None
    /\ left_raised = None

IdleWalk ==
    /\ response_ok = FALSE
    /\ doc_children = <<>>
    /\ doc_visited = 0
    /\ at_endpoint_definition_table = TRUE
    /\ dispatched = <<>>
    /\ yielded = None
    /\ endpoints = <<>>
    /\ endpoints_file = None
    /\ walk_raised = None
    /\ walk_pc = "idle"

-----------------------------------------------------------------------------
(* fix_json_property *)

DataName == <<"d", "a", "t", "a">>
ClickActionName == <<"c", "l", "i", "c", "k", "_", "a", "c", "t", "i", "o", "n">>
PropertyNames == {DataName, ClickActionName}

\* F'"{property_name}"'
Quoted(name) == <<Q>> \o name \o <<Q>>

\* string_copy[index:].index(F'"{property_name}"'), -1 for ValueError
SearchFromIndex(s, i, name) == Find(SliceFrom(s, i), Quoted(name))

\* the test with the separators written as the one string ",{", which no
\* single character equals
NeedsCommaAlways(s, i) == TRUE

\* string_copy[index - 1] not in [",", "{"]
NeedsComma(s, i) == At(s, i - 1) \notin {",", "{"}

\* string_copy[:index] + "," + string_copy[index:]
InsertComma(s, i) == Slice(s, 0, i) \o <<",">> \o SliceFrom(s, i)

\* {"id":"1""data":"x"}
MissingCommaExample ==
    <<"{">> \o Quoted(<<"i", "d">>) \o <<":">> \o Quoted(<<"1">>)
        \o Quoted(DataName) \o <<":">> \o Quoted(<<"x">>) \o <<"}">>

\* [{"id":"1""data":"x"}]
MissingCommaInArray == <<"[">> \o MissingCommaExample \o <<"]">>

FixPieces ==
    {Quoted(DataName), Quoted(ClickActionName), <<"{">>, <<",">>, <<"[">>, <<"x">>}

FixTexts ==
    {Flatten(ps) : ps \in SeqsUpTo(FixPieces, MaxPieces)}
        \cup {MissingCommaExample, MissingCommaInArray}

\* the text can grow by one comma per iteration; no run of the model needs more
MaxGrowth == 2 * MaxPieces + 8

exceptFix == <<repairVars, responseVars, requestVars, leftVars, walkVars>>

InitFix ==
    /\ IdleRepair /\ IdleResponse /\ IdleRequest /\ IdleLeft /\ IdleWalk
    /\ json_string \in FixTexts
    /\ property_name \in PropertyNames
    /\ string_copy = json_string
    /\ index = 0
    /\ fix_pc = "loop"

\* except ValueError: return string_copy
FixNotFound ==
    /\ fix_pc = "loop"
    /\ SearchFromIndex(string_copy, index, property_name) = -1
    /\ fix_pc' = "returned"
    /\ UNCHANGED <<json_string, property_name, string_copy, index, exceptFix>>

\* the if branch: a comma goes in at the offset the search returned
FixInsert ==
    /\ fix_pc = "loop"
    /\ Len(string_copy) < Len(json_string) + MaxGrowth
    /\ LET found == SearchFromIndex(string_copy, index, property_name) IN
        /\ found # -1
        /\ NeedsComma(string_copy, found)
        /\ index' = found
        /\ string_copy' = InsertComma(string_copy, found)
    /\ UNCHANGED <<json_string, property_name, fix_pc, exceptFix>>

\* the else branch: return string_copy
FixSeparated ==
    /\ fix_pc = "loop"
    /\ LET found == SearchFromIndex(string_copy, index, property_name) IN
        /\ found # -1
        /\ ~NeedsComma(string_copy, found)
        /\ index' = found
    /\ fix_pc' = "returned"
    /\ UNCHANGED <<json_string, property_name, string_copy, exceptFix>>

NextFix == FixNotFound \/ FixInsert \/ FixSeparated

\* the whole loop, as the callers of fix_json_property see it
RECURSIVE FixLoop(_, _, _)
FixLoop(s, i, name) ==
    LET found == SearchFromIndex(s, i, name) IN
    IF found = -1 THEN s
    ELSE IF NeedsComma(s, found) THEN FixLoop(InsertComma(s, found), found, name)
    ELSE s

fix_json_property(s, name) == FixLoop(s, 0, name)

\* the loop is straight-line code: an iteration that can run does run
SpecFix == InitFix /\ [][NextFix]_vars /\ WF_vars(NextFix)

-----------------------------------------------------------------------------
(* Properties of fix_json_property *)

RECURSIVE InsertCommasAt(_, _)
InsertCommasAt(s, P) ==
    IF P = {} THEN s ELSE InsertCommasAt(InsertComma(s, Max(P)), P \ {Max(P)})

\* the occurrences of the quoted name that have a preceding character and
\* whose preceding character is neither "," nor "{"
Unseparated(s, name) ==
    {p \in Occurrences(s, Quoted(name)) : p > 0 /\ s[p] \notin {",", "{"}}

\* C4: the repair pass inserts exactly one "," before every occurrence of
\* the quoted property name whose preceding character is neither "," nor
\* "{", and nothing anywhere else.  An occurrence at the very start of the
\* text has no preceding character: either reading of it is accepted.
C4_CommaBeforeEveryUnseparated ==
    fix_pc = "returned" =>
        \/ string_copy = InsertCommasAt(json_string, Unseparated(json_string, property_name))
        \/ /\ 0 \in Occurrences(json_string, Quoted(property_name))
           /\ string_copy =
                InsertCommasAt(json_string, Unseparated(json_string, property_name) \cup {0})

\* C10: fix_json_property terminates: the loop reaches one of its two
\* return statements on every input text and property name.
C10_FixTerminates == <>(fix_pc = "returned")

\* a run that returned after re-searching from the slice offset: the name
\* stood at position 1 and two commas went in
C10_Witness ==
    /\ fix_pc = "returned"
    /\ Find(json_string, Quoted(property_name)) = 1
    /\ Len(string_copy) = Len(json_string) + 2

\* the guard on the text's length never stops an iteration
FixGrowthWithinBound == Len(string_copy) < Len(json_string) + MaxGrowth

-----------------------------------------------------------------------------
(* json.loads, for texts of objects, arrays and strings without escapes.   *)
(* A parsed string is <<"str", characters>>, an array <<"arr", values>>,   *)
(* an object <<"obj", set of <<key, value>>>> where a repeated key keeps   *)
(* its last value, as a Python dict does.                                  *)

Whitespace == {" ", "\t", "\n", "\r"}

JsonFail == [ok |-> FALSE, value |-> <<>>, next |-> 0]
JsonOk(v, n) == [ok |-> TRUE, value |-> v, next |-> n]

\* the first position at or after i that holds no whitespace
RECURSIVE SkipWhitespace(_, _)
SkipWhitespace(s, i) ==
    IF i < Len(s) /\ s[i + 1] \in Whitespace THEN SkipWhitespace(s, i + 1) ELSE i

\* s[i] is the opening quote
ParseString(s, i) ==
    LET close == Find(SliceFrom(s, i + 1), <<Q>>) IN
    IF close = -1 THEN JsonFail
    ELSE JsonOk(<<"str", Slice(s, i + 1, i + 1 + close)>>, i + close + 2)

PutMember(members, k, v) == {m \in members : m[1] # k} \cup {<<k, v>>}

RECURSIVE ParseValue(_, _), ParseElements(_, _, _), ParseMembers(_, _, _)

ParseValue(s, i) ==
    IF i >= Len(s) THEN JsonFail
    ELSE IF s[i + 1] = Q THEN ParseString(s, i)
    ELSE IF s[i + 1] = "[" THEN
        LET j == SkipWhitespace(s, i + 1) IN
        IF j < Len(s) /\ s[j + 1] = "]" THEN JsonOk(<<"arr", <<>>>>, j + 1)
        ELSE ParseElements(s, j, <<>>)
    ELSE IF s[i + 1] = "{" THEN
        LET j == SkipWhitespace(s, i + 1) IN
        IF j < Len(s) /\ s[j + 1] = "}" THEN JsonOk(<<"obj", {}>>, j + 1)
        ELSE ParseMembers(s, j, {})
    ELSE JsonFail

ParseElements(s, i, acc) ==
    LET v == ParseValue(s, i) IN
    IF ~v.ok THEN JsonFail
    ELSE LET j == SkipWhitespace(s, v.next) IN
        IF j >= Len(s) THEN JsonFail
        ELSE IF s[j + 1] = "," THEN
            ParseElements(s, SkipWhitespace(s, j + 1), Append(acc, v.value))
        ELSE IF s[j + 1] = "]" THEN JsonOk(<<"arr", Append(acc, v.value)>>, j + 1)
        ELSE JsonFail

ParseMembers(s, i, acc) ==
    IF i >= Len(s) \/ s[i + 1] # Q THEN JsonFail
    ELSE LET k == ParseString(s, i) IN
        IF ~k.ok THEN JsonFail
        ELSE LET c == SkipWhitespace(s, k.next) IN
            IF c >= Len(s) \/ s[c + 1] # ":" THEN JsonFail
            ELSE LET v == ParseValue(s, SkipWhitespace(s, c + 1)) IN
                IF ~v.ok THEN JsonFail
                ELSE LET j == SkipWhitespace(s, v.next)
                         members == PutMember(acc, k.value[2], v.value) IN
                    IF j >= Len(s) THEN JsonFail
                    ELSE IF s[j + 1] = "," THEN
                        ParseMembers(s, SkipWhitespace(s, j + 1), members)
                    ELSE IF s[j + 1] = "}" THEN JsonOk(<<"obj", members>>, j + 1)
                    ELSE JsonFail

\* None for JSONDecodeError
JsonLoads(s) ==
    LET v == ParseValue(s, SkipWhitespace(s, 0)) IN
    IF v.ok /\ SkipWhitespace(s, v.next) = Len(s) THEN Some(v.value) ELSE None

-----------------------------------------------------------------------------
(* The repair of the example response in scrape_doc_section *)

Ellipsis == <<".", ".", ".">>

ExamplePieces ==
    {Quoted(DataName), Quoted(<<"a">> \o Ellipsis \o <<"b">>),
     <<"[">>, <<"]">>, <<"{">>, <<"}">>, <<":">>, <<",">>, <<" ">>, Ellipsis}

ExampleTexts == {Flatten(ps) : ps \in SeqsUpTo(ExamplePieces, MaxExamplePieces)}

exceptRepair == <<fixVars, responseVars, requestVars, leftVars, walkVars>>

InitRepair ==
    /\ IdleFix /\ IdleResponse /\ IdleRequest /\ IdleLeft /\ IdleWalk
    /\ column_text \in ExampleTexts
    /\ right_column_text = column_text
    /\ example_response = None
    /\ repair_pc = "ellipsis"

RepairStep(from, to, text) ==
    /\ repair_pc = from
    /\ repair_pc' = to
    /\ right_column_text' = text
    /\ UNCHANGED <<column_text, example_response, exceptRepair>>

\* right_column_text.replace("...", "")
ReplaceEllipsis ==
    RepairStep("ellipsis", "bracket", Replace(right_column_text, Ellipsis, <<>>))

\* right_column_text.replace(",]", "]")
ReplaceCommaBracket ==
    RepairStep("bracket", "brace", Replace(right_column_text, <<",", "]">>, <<"]">>))

\* right_column_text.replace(",}", "}")
ReplaceCommaBrace ==
    RepairStep("brace", "data", Replace(right_column_text, <<",", "}">>, <<"}">>))

FixData ==
    RepairStep("data", "click_action", fix_json_property(right_column_text, DataName))

FixClickAction ==
    RepairStep("click_action", "loads",
               fix_json_property(right_column_text, ClickActionName))

\* example_response = json.loads(right_column_text)
LoadsValue ==
    /\ repair_pc = "loads"
    /\ JsonLoads(right_column_text) # None
    /\ example_response' = JsonLoads(right_column_text)
    /\ repair_pc' = "done"
    /\ UNCHANGED <<column_text, right_column_text, exceptRepair>>

\* except JSONDecodeError: nothing is attached
LoadsError ==
    /\ repair_pc = "loads"
    /\ JsonLoads(right_column_text) = None
    /\ repair_pc' = "done"
    /\ UNCHANGED <<column_text, right_column_text, example_response, exceptRepair>>

NextRepair ==
    \/ ReplaceEllipsis
    \/ ReplaceCommaBracket
    \/ ReplaceCommaBrace
    \/ FixData
    \/ FixClickAction
    \/ LoadsValue
    \/ LoadsError

SpecRepair == InitRepair /\ [][NextRepair]_vars

\* the five rewriting statements together
RepairText(t) ==
    fix_json_property(
        fix_json_property(
            Replace(Replace(Replace(t, Ellipsis, <<>>), <<",", "]">>, <<"]">>),
                    <<",", "}">>, <<"}">>),
            DataName),
        ClickActionName)

\* C5: the repair step applied to text that is already valid JSON yields
\* text that parses to the same value as the input.
C5_RepairKeepsValidJson ==
    (repair_pc = "done" /\ JsonLoads(column_text) # None) =>
        example_response = JsonLoads(column_text)

-----------------------------------------------------------------------------
(* The DOM as the parsers see it.                                          *)
(* A child of a tbody is a NavigableString or a row Tag; a row's children  *)
(* that are Tags are its cells.  A cell has its text (get_text) and its    *)
(* list items (the Tag children of its first ul, None without a ul).       *)

TextNode == [navigable_string |-> TRUE]

IsNavigableString(node) == "navigable_string" \in DOMAIN node

Cell(text) == [text |-> text, ul |-> None]
CellWithList(text, items) == [text |-> text, ul |-> Some(items)]
Row(cells) == [cells |-> cells]

-----------------------------------------------------------------------------
(* parse_response_body *)

\* []
S_brackets == <<"[", "]">>

\* Object
S_object == <<"O", "b", "j", "e", "c", "t">>

\* [#].
S_array_infix == <<"[", "#", "]", ".">>

\* .
S_dot == <<".">>

\* {0}
S_field0 == <<"{", "0", "}">>

\* the parent's [] dropped before [#] is added
ArrayKeyFormatStripped(key) ==
    SubSeq(key, 1, Len(key) - Len(S_brackets)) \o S_array_infix \o S_field0

\* f"{key}[#]." + "{0}", with the cell's key as it stands
ArrayKeyFormat(key) == key \o S_array_infix \o S_field0

\* f"{key}." + "{0}"
ObjectKeyFormat(key) == key \o S_dot \o S_field0

\* the field of one row: the key goes through key_format_string when there
\* is one, and is case-folded after that
ResponseField(row, kfs) ==
    LET key == row.cells[1].text
        data_type == row.cells[2].text
        description == row.cells[3].text IN
    [key |-> Casefold(IF kfs = None THEN key ELSE Format(kfs[1], key)),
     type |-> Casefold(data_type),
     description |-> description]

\* key_format_string after the row: the tests read the field's key, which
\* is the formatted and case-folded one
ResponseKeyFormat(row, kfs) ==
    LET field == ResponseField(row, kfs)
        key == row.cells[1].text IN
    IF EndsWith(Casefold(field.key), Casefold(S_brackets))
        THEN Some(ArrayKeyFormat(key))
    ELSE IF StartsWith(Casefold(field.key), Casefold(S_object))
        THEN Some(ObjectKeyFormat(key))
    ELSE kfs

\* the loop over body_tag.children, from local state (container, kfs)
RECURSIVE ResponseLoop(_, _, _)
ResponseLoop(rows, container, kfs) ==
    IF rows = <<>> THEN container
    ELSE IF IsNavigableString(Head(rows)) THEN ResponseLoop(Tail(rows), container, kfs)
    ELSE ResponseLoop(Tail(rows),
                      Append(container, ResponseField(Head(rows), kfs)),
                      ResponseKeyFormat(Head(rows), kfs))

parse_response_body(rows) == ResponseLoop(rows, <<>>, None)

\* data[]
K_data == <<"d", "a", "t", "a", "[", "]">>

\* id
K_id == <<"i", "d">>

\* Object
K_Object == <<"O", "b", "j", "e", "c", "t">>

\* count
K_count == <<"c", "o", "u", "n", "t">>

\* total
K_total == <<"t", "o", "t", "a", "l">>

\* Objects[]
K_Objects == <<"O", "b", "j", "e", "c", "t", "s", "[", "]">>

\* String
T_String == <<"S", "t", "r", "i", "n", "g">>

\* Object[]
T_ObjectArray == <<"O", "b", "j", "e", "c", "t", "[", "]">>

\* The stream.
D_plain == <<"T", "h", "e", " ", "s", "t", "r", "e", "a", "m", ".">>

ResponseKeys == {K_data, K_id, K_Object, K_count, K_total, K_Objects}
ResponseTypes == {T_String, T_ObjectArray}

ResponseRowTags ==
    {Row(<<Cell(k), Cell(t), Cell(D_plain)>>) : k \in ResponseKeys, t \in ResponseTypes}

exceptResponse == <<fixVars, repairVars, requestVars, leftVars, walkVars>>

InitResponse ==
    /\ IdleFix /\ IdleRepair /\ IdleRequest /\ IdleLeft /\ IdleWalk
    /\ response_rows \in SeqsUpTo(ResponseRowTags \cup {TextNode}, MaxResponseRows)
    /\ response_visited = 0
    /\ response_container = <<>>
    /\ key_format_string = None

\* if isinstance(row, NavigableString): continue
ResponseSkipString ==
    /\ response_visited < Len(response_rows)
    /\ IsNavigableString(response_rows[response_visited + 1])
    /\ response_visited' = response_visited + 1
    /\ UNCHANGED <<response_rows, response_container, key_format_string, exceptResponse>>

\* one pass of the loop body for a row
ResponseRow ==
    /\ response_visited < Len(response_rows)
    /\ LET row == response_rows[response_visited + 1] IN
        /\ ~IsNavigableString(row)
        /\ response_container' =
                Append(response_container, ResponseField(row, key_format_string))
        /\ key_format_string' = ResponseKeyFormat(row, key_format_string)
    /\ response_visited' = response_visited + 1
    /\ UNCHANGED <<response_rows, exceptResponse>>

NextResponse == ResponseSkipString \/ ResponseRow

SpecResponse == InitResponse /\ [][NextResponse]_vars

-----------------------------------------------------------------------------
(* Properties of parse_response_body *)

IsRowTag(node) == ~IsNavigableString(node)

\* the rows visited so far: response_container[j] is the field of the j-th
VisitedResponseRows == SelectSeq(SubSeq(response_rows, 1, response_visited), IsRowTag)

OwnKey(row) == row.cells[1].text

\* a row whose own key ends with [] or starts with "Object"
IsParentRow(row) ==
    \/ EndsWith(OwnKey(row), S_brackets)
    \/ StartsWith(Casefold(OwnKey(row)), Casefold(S_object))

\* what stands before the row's own key in the key of its field
PrefixInField(field, row) == SubSeq(field.key, 1, Len(field.key) - Len(OwnKey(row)))

\* C2: the nesting prefix changes only at a parent row: every row after a
\* parent row and before the next one gets the same prefix, the one the
\* row right after the parent got, however many plain rows lie in between.
C2_PrefixHeldUntilNextParent ==
    LET rows == VisitedResponseRows IN
    \A j \in 1..Len(rows) : \A k \in (j + 1)..Len(rows) :
        (IsParentRow(rows[j]) /\ \A m \in (j + 1)..k : ~IsParentRow(rows[m])) =>
            response_container[k].key =
                PrefixInField(response_container[j + 1], rows[j + 1])
                    \o Casefold(OwnKey(rows[k]))

\* data[#].id
X_data_id == <<"d", "a", "t", "a", "[", "#", "]", ".", "i", "d">>

\* Object.count
X_Object_count == <<"O", "b", "j", "e", "c", "t", ".", "c", "o", "u", "n", "t">>

-----------------------------------------------------------------------------
(* pull_possible_values_list and parse_request_body *)

\*  (em dash) 
S_em_dash_sep == <<" ", EmDash, " ">>

\*  - 
S_hyphen_sep == <<" ", "-", " ">>

\* string
S_string == <<"s", "t", "r", "i", "n", "g">>

\* Possible values
S_possible_values == <<"P", "o", "s", "s", "i", "b", "l", "e", " ", "v", "a", "l", "u", "e", "s">>

\* The default is
S_The_default_is == <<"T", "h", "e", " ", "d", "e", "f", "a", "u", "l", "t", " ", "i", "s">>

\* the default is
S_the_default_is == <<"t", "h", "e", " ", "d", "e", "f", "a", "u", "l", "t", " ", "i", "s">>

\* yes
S_yes == <<"y", "e", "s">>

\* no
S_no == <<"n", "o">>

\* the value of one list item
PossibleValue(value_text) ==
    IF Contains(value_text, <<EmDash>>) THEN SplitFirst(value_text, S_em_dash_sep)
    ELSE IF Contains(value_text, <<"-">>) THEN SplitFirst(value_text, S_hyphen_sep)
    ELSE value_text

\* the loop over values_list_tag.children
RECURSIVE PossibleValuesLoop(_, _)
PossibleValuesLoop(children, container) ==
    IF children = <<>> THEN container
    ELSE IF IsNavigableString(Head(children))
        THEN PossibleValuesLoop(Tail(children), container)
    ELSE PossibleValuesLoop(Tail(children),
                            Append(container, PossibleValue(Head(children).text)))

pull_possible_values_list(tag) ==
    IF tag.ul = None THEN <<>> ELSE PossibleValuesLoop(tag.ul[1], <<>>)

\* the key, the type and, by the number of cells, required and description
FieldOfCells(table_data) ==
    LET key_type == [key |-> table_data[1].text, type |-> Casefold(table_data[2].text)] IN
    IF Len(table_data) = 4 THEN
        LET bool_text == Casefold(table_data[3].text)
            described == Put(key_type, "description", table_data[4].text) IN
        IF bool_text = S_yes THEN Put(described, "required", TRUE)
        ELSE IF bool_text = S_no THEN Put(described, "required", FALSE)
        ELSE described
    ELSE Put(Put(key_type, "required", FALSE), "description", table_data[3].text)

\* raw_description: the cell the description was read from
RawDescription(table_data) ==
    IF Len(table_data) = 4 THEN table_data[4] ELSE table_data[3]

WithPossibleValues(field, table_data) ==
    IF Contains(field.description, S_possible_values) /\ field.type = Casefold(S_string)
        THEN Put(field, "possible_values",
                 pull_possible_values_list(RawDescription(table_data)))
        ELSE field

\* the token after "The default is", without its quotes and its trailing
\* full stops and commas
DefaultValue(description) ==
    LET at == Find(description, S_The_default_is)
        token == SplitFirst(SliceFrom(description, at + Len(S_the_default_is) + 1), <<" ">>)
        unquoted == IF StartsWith(token, <<Q>>) THEN Slice(token, 1, Len(token) - 1)
                    ELSE token IN
    RStrip(unquoted, {".", ","})

WithDefaultValue(field) ==
    IF Contains(field.description, S_The_default_is)
        THEN Put(field, "default_value", DefaultValue(field.description))
        ELSE field

\* the field of one row
RequestField(row) ==
    WithDefaultValue(WithPossibleValues(FieldOfCells(row.cells), row.cells))

\* the loop over body_tag.children
RECURSIVE RequestLoop(_, _)
RequestLoop(rows, container) ==
    IF rows = <<>> THEN container
    ELSE IF IsNavigableString(Head(rows)) THEN RequestLoop(Tail(rows), container)
    ELSE RequestLoop(Tail(rows), Append(container, RequestField(Head(rows))))

parse_request_body(rows) == RequestLoop(rows, <<>>)

\* Integer
T_Integer == <<"I", "n", "t", "e", "g", "e", "r">>

\* Yes
B_Yes == <<"Y", "e", "s">>

\* NO
B_NO == <<"N", "O">>

\* Optional
B_Optional == <<"O", "p", "t", "i", "o", "n", "a", "l">>

\* Possible values are:
D_values == <<"P", "o", "s", "s", "i", "b", "l", "e", " ", "v", "a", "l", "u", "e", "s", " ", "a", "r", "e", ":">>

\* The default is 20.
D_default == <<"T", "h", "e", " ", "d", "e", "f", "a", "u", "l", "t", " ", "i", "s", " ", "2", "0", ".">>

\* The default is "100".
D_default_quoted == <<"T", "h", "e", " ", "d", "e", "f", "a", "u", "l", "t", " ", "i", "s", " ", Q, "1", "0", "0", Q, ".">>

\* online (em dash) the stream is live
V_online == <<"o", "n", "l", "i", "n", "e", " ", EmDash, " ", "t", "h", "e", " ", "s", "t", "r", "e", "a", "m", " ", "i", "s", " ", "l", "i", "v", "e">>

\* offline - not live
V_offline == <<"o", "f", "f", "l", "i", "n", "e", " ", "-", " ", "n", "o", "t", " ", "l", "i", "v", "e">>

\* all
V_all == <<"a", "l", "l">>

ListItem(text) == [text |-> text]

DescriptionCells ==
    {Cell(D_plain), Cell(D_values), Cell(D_default), Cell(D_default_quoted),
     CellWithList(D_values,
                  <<TextNode, ListItem(V_online), ListItem(V_offline), ListItem(V_all)>>)}

RequiredCells == {Cell(B_Yes), Cell(B_NO), Cell(B_Optional)}

\* rows of three cells and rows of four
RequestRowTags ==
    {Row(<<Cell(K_id), Cell(t), d>>) : t \in {T_String, T_Integer}, d \in DescriptionCells}
        \cup {Row(<<Cell(K_id), Cell(T_String), r, d>>) :
                r \in RequiredCells, d \in DescriptionCells}

exceptRequest == <<fixVars, repairVars, responseVars, leftVars, walkVars>>

InitRequest ==
    /\ IdleFix /\ IdleRepair /\ IdleResponse /\ IdleLeft /\ IdleWalk
    /\ request_rows \in SeqsUpTo(RequestRowTags \cup {TextNode}, MaxRequestRows)
    /\ request_visited = 0
    /\ request_container = <<>>

\* if isinstance(row, NavigableString): continue
RequestSkipString ==
    /\ request_visited < Len(request_rows)
    /\ IsNavigableString(request_rows[request_visited + 1])
    /\ request_visited' = request_visited + 1
    /\ UNCHANGED <<request_rows, request_container, exceptRequest>>

\* one pass of the loop body for a row
RequestRow ==
    /\ request_visited < Len(request_rows)
    /\ ~IsNavigableString(request_rows[request_visited + 1])
    /\ request_container' =
            Append(request_container, RequestField(request_rows[request_visited + 1]))
    /\ request_visited' = request_visited + 1
    /\ UNCHANGED <<request_rows, exceptRequest>>

NextRequest == RequestSkipString \/ RequestRow

SpecRequest == InitRequest /\ [][NextRequest]_vars

-----------------------------------------------------------------------------
(* Properties of parse_request_body *)

VisitedRequestRows == SelectSeq(SubSeq(request_rows, 1, request_visited), IsRowTag)

\* C7: every field of the request-mode extractor carries a required value:
\* false for a row of 3 cells; for a row of 4 cells true when the third
\* cell case-folds to "yes", false when it case-folds to "no", and false
\* for any other third-cell text.
C7_RequiredAlwaysPresent ==
    \A j \in 1..Len(request_container) :
        LET cells == VisitedRequestRows[j].cells
            field == request_container[j] IN
        /\ "required" \in DOMAIN field
        /\ field["required"] = (Len(cells) = 4 /\ Casefold(cells[3].text) = S_yes)

-----------------------------------------------------------------------------
(* pull_scopes and scrape_doc_left_column                                  *)
(* A child of the left column is a NavigableString or a Tag.  A Tag has    *)
(* its name; a heading has its text and whether it has a non-empty id; a   *)
(* paragraph has the words of its text, which get_text joins by single     *)
(* spaces, and the texts of its strong elements; a table has the children  *)
(* of its tbody.  The summary is the sequence of its words and paragraph   *)
(* breaks.                                                                 *)

\* h2
S_h2 == <<"h", "2">>

\* h3
S_h3 == <<"h", "3">>

\* p
S_p == <<"p">>

\* table
S_table == <<"t", "a", "b", "l", "e">>

Heading2(has_id, text) == [name |-> S_h2, id |-> has_id, text |-> text]
Heading3(text) == [name |-> S_h3, text |-> text]
Paragraph(words, strong) == [name |-> S_p, words |-> words, strong |-> strong]
Table(rows) == [name |-> S_table, rows |-> rows]

\* child.name: None for a NavigableString
NodeName(node) == IF IsNavigableString(node) THEN None ELSE Some(node.name)

\* the scopes of a paragraph, in order
pull_scopes(tag) == [i \in 1..Len(tag.strong) |-> Casefold(tag.strong[i])]

ParagraphBreak == "\n\n"

\* str.strip, on words and paragraph breaks
RECURSIVE Strip(_)
Strip(s) ==
    IF s # <<>> /\ Head(s) = ParagraphBreak THEN Strip(Tail(s))
    ELSE IF s # <<>> /\ s[Len(s)] = ParagraphBreak THEN Strip(SubSeq(s, 1, Len(s) - 1))
    ELSE s

\* get_text(...).split(" "): the words, and one empty word for an empty text
Segments(words) == IF words = <<>> THEN <<"">> ELSE words

\* the branch of the if/elif chain that a child takes; reading
\* endpoint_doc["title"] before a title was stored raises KeyError
Branch(child, doc, header) ==
    LET name == NodeName(child) IN
    IF name = Some(S_h2) /\ child.id THEN "title"
    ELSE IF name = Some(S_p) /\ "title" \notin DOMAIN doc THEN "KeyError"
    ELSE IF name = Some(S_p) /\ header = Some(doc["title"]) THEN "summary"
    ELSE IF name = Some(S_h3) THEN "header"
    ELSE IF name = Some(S_p) /\ header = Some("Authorization") THEN "scopes"
    ELSE IF name = Some(S_p) /\ header = Some("URL") THEN "url"
    ELSE IF name = Some(S_table) /\ header = Some("Request Body") THEN "request_body"
    ELSE IF name = Some(S_table) /\ header = Some("Request Query Parameters")
        THEN "query_params"
    ELSE IF name = Some(S_table) /\ header = Some("Response Body") THEN "response_body"
    ELSE "ignore"

WithSummary(doc, child) ==
    LET summary == IF "summary" \in DOMAIN doc THEN doc["summary"] ELSE <<>> IN
    Put(doc, "summary", Strip(summary \o <<ParagraphBreak>> \o child.words))

WithUrl(doc, child) ==
    LET segments == Segments(child.words)
        http_method == IF Len(segments) = 2 THEN segments[1] ELSE "GET"
        url == IF Len(segments) = 2 THEN segments[2] ELSE segments[1] IN
    Put(Put(doc, "method", http_method), "url", url)

\* endpoint_doc after the child
DocAfter(child, doc, header) ==
    LET branch == Branch(child, doc, header) IN
    IF branch = "title" THEN Put(doc, "title", child.text)
    ELSE IF branch = "summary" THEN WithSummary(doc, child)
    ELSE IF branch = "scopes" THEN Put(doc, "scopes", pull_scopes(child))
    ELSE IF branch = "url" THEN WithUrl(doc, child)
    ELSE IF branch = "request_body"
        THEN Put(doc, "request_body", parse_request_body(child.rows))
    ELSE IF branch = "query_params"
        THEN Put(doc, "query_params", parse_request_body(child.rows))
    ELSE IF branch = "response_body"
        THEN Put(doc, "response_body", parse_response_body(child.rows))
    ELSE doc

\* current_header after the child
HeaderAfter(child, doc, header) ==
    IF Branch(child, doc, header) \in {"title", "header"} THEN Some(child.text)
    ELSE header

\* the loop over tag.children: the record returned, or the exception
RECURSIVE LeftLoop(_, _, _)
LeftLoop(children, doc, header) ==
    IF children = <<>> THEN [raised |-> None, doc |-> doc]
    ELSE IF Branch(Head(children), doc, header) = "KeyError"
        THEN [raised |-> Some("KeyError"), doc |-> doc]
    ELSE LeftLoop(Tail(children),
                  DocAfter(Head(children), doc, header),
                  HeaderAfter(Head(children), doc, header))

scrape_doc_left_column(children) == LeftLoop(children, EmptyDict, None)

\* User:Read:Email
Scope_text == <<"U", "s", "e", "r", ":", "R", "e", "a", "d", ":", "E", "m", "a", "i", "l">>

HeaderTexts ==
    {"Authorization", "URL", "Request Body", "Request Query Parameters",
     "Response Body", "Response Codes"}

LeftChildKinds ==
    {TextNode, Heading2(TRUE, "Get Streams"), Heading2(FALSE, "Get Streams")}
        \cup {Heading3(h) : h \in HeaderTexts}
        \cup {Paragraph(<<"GET", "https://api.twitch.tv/helix/streams">>, <<>>),
              Paragraph(<<"https://api.twitch.tv/helix/streams">>, <<>>),
              Paragraph(<<"Requires", "a", "token.">>, <<Scope_text>>)}
        \cup {Table(<<>>),
              Table(<<TextNode, Row(<<Cell(K_data), Cell(T_ObjectArray), Cell(D_plain)>>)>>)}

exceptLeft == <<fixVars, repairVars, responseVars, requestVars, walkVars>>

InitLeft ==
    /\ IdleFix /\ IdleRepair /\ IdleResponse /\ IdleRequest /\ IdleWalk
    /\ left_children \in SeqsUpTo(LeftChildKinds, MaxLeftChildren)
    /\ left_visited = 0
    /\ endpoint_doc = EmptyDict
    /\ current_header = None
    /\ left_raised = None

\* the next child takes the given branch
LeftTakes(branch) ==
    /\ left_raised = None
    /\ left_visited < Len(left_children)
    /\ Branch(left_children[left_visited + 1], endpoint_doc, current_header) = branch

\* one pass of the loop body
LeftPass ==
    /\ LET child == left_children[left_visited + 1] IN
        /\ endpoint_doc' = DocAfter(child, endpoint_doc, current_header)
        /\ current_header' = HeaderAfter(child, endpoint_doc, current_header)
    /\ left_visited' = left_visited + 1
    /\ UNCHANGED <<left_children, left_raised, exceptLeft>>

LeftTitle ==
    /\ LeftTakes("title")
    /\ LeftPass

LeftSummary ==
    /\ LeftTakes("summary")
    /\ LeftPass

LeftHeader ==
    /\ LeftTakes("header")
    /\ LeftPass

LeftScopes ==
    /\ LeftTakes("scopes")
    /\ LeftPass

LeftUrl ==
    /\ LeftTakes("url")
    /\ LeftPass

LeftRequestBody ==
    /\ LeftTakes("request_body")
    /\ LeftPass

LeftQueryParams ==
    /\ LeftTakes("query_params")
    /\ LeftPass

LeftResponseBody ==
    /\ LeftTakes("response_body")
    /\ LeftPass

LeftIgnore ==
    /\ LeftTakes("ignore")
    /\ LeftPass

\* the KeyError leaves the function: no later child is visited
LeftKeyError ==
    /\ LeftTakes("KeyError")
    /\ left_raised' = Some("KeyError")
    /\ UNCHANGED <<left_children, left_visited, endpoint_doc, current_header, exceptLeft>>

NextLeft ==
    \/ LeftTitle
    \/ LeftSummary
    \/ LeftHeader
    \/ LeftScopes
    \/ LeftUrl
    \/ LeftRequestBody
    \/ LeftQueryParams
    \/ LeftResponseBody
    \/ LeftIgnore
    \/ LeftKeyError

SpecLeft == InitLeft /\ [][NextLeft]_vars

-----------------------------------------------------------------------------
(* Properties of scrape_doc_left_column *)

\* the transitions the parser is specified to have
IsListedTransition(child, doc, header) ==
    LET name == NodeName(child) IN
    \/ name = Some(S_h2) /\ child.id
    \/ name = Some(S_h3)
    \/ name = Some(S_p) /\ "title" \in DOMAIN doc /\ header = Some(doc["title"])
    \/ name = Some(S_p) /\ header \in {Some("Authorization"), Some("URL")}
    \/ name = Some(S_table)
        /\ header \in {Some("Request Body"), Some("Request Query Parameters"),
                       Some("Response Body")}

\* C6: the parse runs to completion and a node that matches none of the
\* listed transitions is ignored: it changes neither the endpoint record
\* nor current_header and raises no error, also a paragraph or a table that
\* comes before any level-2 title heading.
C6_UnlistedNodesIgnored ==
    [][/\ left_raised' = None
       /\ (left_visited' # left_visited
            /\ ~IsListedTransition(left_children[left_visited + 1],
                                   endpoint_doc, current_header))
          => (endpoint_doc' = endpoint_doc /\ current_header' = current_header)]_vars

FieldGroups == {"scopes", "request_body", "query_params", "response_body"}

\* C9: a field group that is present in the endpoint record is a non-empty
\* list; absence is expressed only by omitting the key.
C9_GroupsPresentAreNonEmpty ==
    \A group \in FieldGroups \cap DOMAIN endpoint_doc : endpoint_doc[group] # <<>>

-----------------------------------------------------------------------------
(* scrape_doc_section, scrape_docs and main                                *)
(* A child of the main container is a NavigableString or a Tag.  A section *)
(* has what find_next gives for it: the children of the left-docs column   *)
(* (None when there is no such column) and the right-code column (None     *)
(* when there is none) with the text of its language-json block (None when *)
(* it has none).                                                           *)

\* section
S_section == <<"s", "e", "c", "t", "i", "o", "n">>

\* div
S_div == <<"d", "i", "v">>

Section(left_docs, right_code) ==
    [name |-> S_section, left_docs |-> left_docs, right_code |-> right_code]

RightCode(language_json) == [language_json |-> language_json]

Returned(result) == [raised |-> None, result |-> result]
Raised(exception) == [raised |-> Some(exception), result |-> None]

\* the value returned, or the exception that leaves the function
scrape_doc_section(tag) ==
    LET left == IF tag.left_docs = None THEN [raised |-> None, doc |-> <<>>]
                ELSE scrape_doc_left_column(tag.left_docs[1])
        left_doc_scrape_result == IF tag.left_docs = None THEN None ELSE Some(left.doc) IN
    IF left.raised # None THEN Raised(left.raised[1])
    \* right_doc_column.find on None
    ELSE IF tag.right_code = None THEN Raised("AttributeError")
    ELSE IF tag.right_code[1].language_json = None THEN Returned(left_doc_scrape_result)
    ELSE LET parsed == JsonLoads(RepairText(tag.right_code[1].language_json[1])) IN
        \* except JSONDecodeError: two lines are printed
        IF parsed = None THEN Returned(left_doc_scrape_result)
        \* left_doc_scrape_result["example_response"] = ... on None
        ELSE IF left_doc_scrape_result = None THEN Raised("TypeError")
        ELSE Returned(Some(Put(left_doc_scrape_result[1], "example_response", parsed[1])))

\* at_endpoint_definition_table or child.name is None
\*     or child.name.casefold() != "section".casefold()
IsSkipped(child, at_table) ==
    IF at_table THEN TRUE
    ELSE IF NodeName(child) = None THEN TRUE
    ELSE Casefold(NodeName(child)[1]) # Casefold(S_section)

\* not result
IsFalsy(result) == IF result = None THEN TRUE ELSE DOMAIN result[1] = {}

LeftDocsKinds == {None, Some(<<>>), Some(<<Heading2(TRUE, "Get Streams")>>)}

RightCodeKinds ==
    {None, Some(RightCode(None)), Some(RightCode(Some(<<"{", "}">>))),
     Some(RightCode(Some(<<"{">>)))}

DocChildKinds ==
    {TextNode, [name |-> S_div]}
        \cup {Section(l, r) : l \in LeftDocsKinds, r \in RightCodeKinds}

exceptWalk == <<fixVars, repairVars, responseVars, requestVars, leftVars>>

InitWalk ==
    /\ IdleFix /\ IdleRepair /\ IdleResponse /\ IdleRequest /\ IdleLeft
    /\ response_ok \in BOOLEAN
    /\ doc_children \in SeqsUpTo(DocChildKinds, MaxDocChildren)
    /\ doc_visited = 0
    /\ at_endpoint_definition_table = TRUE
    /\ dispatched = <<>>
    /\ yielded = None
    /\ endpoints = <<>>
    /\ endpoints_file = None
    /\ walk_raised = None
    /\ walk_pc = "get"

\* if not response.ok: return
ScrapeDocsNotOk ==
    /\ walk_pc = "get"
    /\ ~response_ok
    /\ walk_pc' = "exhausted"
    /\ UNCHANGED <<response_ok, doc_children, doc_visited, at_endpoint_definition_table,
                   dispatched, yielded, endpoints, endpoints_file, walk_raised, exceptWalk>>

\* the page is parsed and the flag is set
ScrapeDocsParse ==
    /\ walk_pc = "get"
    /\ response_ok
    /\ at_endpoint_definition_table' = TRUE
    /\ walk_pc' = "walk"
    /\ UNCHANGED <<response_ok, doc_children, doc_visited, dispatched, yielded,
                   endpoints, endpoints_file, walk_raised, exceptWalk>>

\* the if branch of the loop body: the flag is cleared, the child is passed
ScrapeDocsSkip ==
    /\ walk_pc = "walk"
    /\ doc_visited < Len(doc_children)
    /\ IsSkipped(doc_children[doc_visited + 1], at_endpoint_definition_table)
    /\ at_endpoint_definition_table' = FALSE
    /\ doc_visited' = doc_visited + 1
    /\ UNCHANGED <<response_ok, doc_children, dispatched, yielded, endpoints,
                   endpoints_file, walk_raised, walk_pc, exceptWalk>>

\* yield scrape_doc_section(child)
ScrapeDocsYield ==
    /\ walk_pc = "walk"
    /\ doc_visited < Len(doc_children)
    /\ ~IsSkipped(doc_children[doc_visited + 1], at_endpoint_definition_table)
    /\ scrape_doc_section(doc_children[doc_visited + 1]).raised = None
    /\ dispatched' = Append(dispatched, doc_visited + 1)
    /\ yielded' = Some(scrape_doc_section(doc_children[doc_visited + 1]).result)
    /\ doc_visited' = doc_visited + 1
    /\ walk_pc' = "main"
    /\ UNCHANGED <<response_ok, doc_children, at_endpoint_definition_table, endpoints,
                   endpoints_file, walk_raised, exceptWalk>>

\* scrape_doc_section raises: the exception leaves scrape_docs and main
ScrapeDocsRaise ==
    /\ walk_pc = "walk"
    /\ doc_visited < Len(doc_children)
    /\ ~IsSkipped(doc_children[doc_visited + 1], at_endpoint_definition_table)
    /\ scrape_doc_section(doc_children[doc_visited + 1]).raised # None
    /\ dispatched' = Append(dispatched, doc_visited + 1)
    /\ walk_raised' = scrape_doc_section(doc_children[doc_visited + 1]).raised
    /\ doc_visited' = doc_visited + 1
    /\ walk_pc' = "aborted"
    /\ UNCHANGED <<response_ok, doc_children, at_endpoint_definition_table, yielded,
                   endpoints, endpoints_file, exceptWalk>>

\* the loop over doc_section.children ends
ScrapeDocsExhausted ==
    /\ walk_pc = "walk"
    /\ doc_visited = Len(doc_children)
    /\ walk_pc' = "exhausted"
    /\ UNCHANGED <<response_ok, doc_children, doc_visited, at_endpoint_definition_table,
                   dispatched, yielded, endpoints, endpoints_file, walk_raised, exceptWalk>>

\* if not result: continue
MainContinue ==
    /\ walk_pc = "main"
    /\ IsFalsy(yielded[1])
    /\ yielded' = None
    /\ walk_pc' = "walk"
    /\ UNCHANGED <<response_ok, doc_children, doc_visited, at_endpoint_definition_table,
                   dispatched, endpoints, endpoints_file, walk_raised, exceptWalk>>

\* endpoints.append(result)
MainAppend ==
    /\ walk_pc = "main"
    /\ ~IsFalsy(yielded[1])
    /\ endpoints' = Append(endpoints, yielded[1][1])
    /\ yielded' = None
    /\ walk_pc' = "walk"
    /\ UNCHANGED <<response_ok, doc_children, doc_visited, at_endpoint_definition_table,
                   dispatched, endpoints_file, walk_raised, exceptWalk>>

\* json.dump(endpoints, file, indent=2)
MainDump ==
    /\ walk_pc = "exhausted"
    /\ endpoints_file' = Some(endpoints)
    /\ walk_pc' = "done"
    /\ UNCHANGED <<response_ok, doc_children, doc_visited, at_endpoint_definition_table,
                   dispatched, yielded, endpoints, walk_raised, exceptWalk>>

NextWalk ==
    \/ ScrapeDocsNotOk
    \/ ScrapeDocsParse
    \/ ScrapeDocsSkip
    \/ ScrapeDocsYield
    \/ ScrapeDocsRaise
    \/ ScrapeDocsExhausted
    \/ MainContinue
    \/ MainAppend
    \/ MainDump

SpecWalk == InitWalk /\ [][NextWalk]_vars

-----------------------------------------------------------------------------
(* Properties of scrape_docs and main *)

IsSectionBlock(child) ==
    IF NodeName(child) = None THEN FALSE
    ELSE Casefold(NodeName(child)[1]) = Casefold(S_section)

\* the section blocks among the children visited so far
SectionsVisited == {k \in 1..doc_visited : IsSectionBlock(doc_children[k])}

Range(s) == {s[i] : i \in 1..Len(s)}

\* C1: the walker skips exactly one section block, the first one, and
\* dispatches every later section block to the section parser, whatever
\* comes before that first section; a text node never uses up the skip.
C1_OnlyFirstSectionSkipped ==
    Range(dispatched) =
        IF SectionsVisited = {} THEN {} ELSE SectionsVisited \ {Min(SectionsVisited)}

\* the dispatched sections whose result main has dealt with
Handled == IF walk_pc = "main" THEN SubSeq(dispatched, 1, Len(dispatched) - 1) ELSE dispatched

HasLeftRecord(k) ==
    /\ doc_children[k].left_docs # None
    /\ scrape_doc_left_column(doc_children[k].left_docs[1]).doc # EmptyDict

HasNoLeftColumn(k) == doc_children[k].left_docs = None

\* C8: each dispatched section contributes exactly one record to the
\* output list, and none when its left-column scrape returned an empty
\* record, with or without a parseable example; a missing left column does
\* not abort the run (whether such a section contributes is left open).
C8_OneRecordPerSection ==
    /\ walk_raised # Some("TypeError")
    /\ walk_pc # "aborted" =>
        LET certain == Cardinality({i \in 1..Len(Handled) : HasLeftRecord(Handled[i])})
            open == Cardinality({i \in 1..Len(Handled) : HasNoLeftColumn(Handled[i])}) IN
        Len(endpoints) \in certain..(certain + open)

=============================================================================
